---- MODULE Spec2Model ----
(***************************************************************************)
(* Model of source/blender/gpu/intern/gpu_uniformbuffer.cc: the dynamic    *)
(* uniform-buffer layout packer and the GPUUniformBuffer lifecycle.        *)
(*                                                                         *)
(* Four specifications share the module:                                   *)
(*   PackSpec    the packer on every list of supported types up to MaxLen  *)
(*   RejectSpec  the packer on lists that hold unsupported types too       *)
(*   Spec        the create / update / bind / unbind / free protocol       *)
(*   MultiSpec   several buffers that are created, bound and unbound       *)
(***************************************************************************)
EXTENDS Integers, Sequences, FiniteSets, TLC

(***************************************************************************)
(* Bounds of the model.                                                    *)
(***************************************************************************)
MaxLen == 5
\* Lifecycle: number of buffers, length of a dynamic buffer's input list.
MaxUbos == 1
MaxDynLen == 1
\* Length of the lists that hold a type past GPU_MAT4 (RejectSpec).
MaxRejectLen == 3
\* Buffers of the specification of several buffers.
MaxMulti == 2

(***************************************************************************)
(* eGPUType (GPU_material.h): the value is the number of float components. *)
(***************************************************************************)
GPU_FLOAT == 1
GPU_VEC2 == 2
GPU_VEC3 == 3
GPU_VEC4 == 4
GPU_MAT3 == 9
GPU_MAT4 == 16

MAX_UBO_GPU_TYPE == GPU_MAT4

\* A value of eGPUType past GPU_MAT4, next to the one line 125 forms
\* (MAX_UBO_GPU_TYPE + 1).  Every value past GPU_MAT4 takes the same branches
\* (line 134) and is sized and copied by its own number; the enumerators
\* there (textures, closures, attributes) only read more floats behind vec.
TypePastMat4 == MAX_UBO_GPU_TYPE + 2

SupportedTypes == {GPU_FLOAT, GPU_VEC2, GPU_VEC3, GPU_VEC4, GPU_MAT4}
InputTypes == SupportedTypes \cup {GPU_MAT3}
AllTypes == InputTypes \cup {TypePastMat4}

\* float vec[16] of GPUInput
VecLen == 16

\* A NULL link / NULL pointer.
NULL == 0

\* sizeof(float)
SizeofFloat == 4

\* The build configurations: BLI_assert compiled out (NDEBUG), compiled in
\* and printing only, compiled in and aborting (WITH_ASSERT_ABORT).
Builds == {"release", "debug", "debug_abort"}

(***************************************************************************)
(* A ListBase of LinkData is a sequence of links; a link is identified by  *)
(* its id (its position in the caller's list) and carries its GPUInput's   *)
(* type.  input->vec[k] is a value that is distinct for every input and    *)
(* component.                                                              *)
(***************************************************************************)
Link(i, t) == [id |-> i, type |-> t]

InputVec(link, k) == 100 * link.id + k

ListsOver(T, n) ==
  UNION {{[i \in 1..m |-> Link(i, f[i])] : f \in [1..m -> T]} : m \in 1..n}

\* Position of the link with the given id in the list (0 when absent).
IndexOf(l, id) ==
  IF \E i \in 1..Len(l) : l[i].id = id
    THEN CHOOSE i \in 1..Len(l) : l[i].id = id
    ELSE 0

\* link->next, as a link id (NULL at the end of the list).
NextOf(l, id) ==
  LET i == IndexOf(l, id)
  IN IF i = 0 \/ i = Len(l) THEN NULL ELSE l[i + 1].id

TypeOf(l, id) == l[IndexOf(l, id)].type

\* BLI_remlink
RemLink(l, id) ==
  LET i == IndexOf(l, id)
  IN SubSeq(l, 1, i - 1) \o SubSeq(l, i + 1, Len(l))

\* BLI_insertlinkafter(list, prev, new)
InsertLinkAfter(l, prev, new) ==
  LET i == IndexOf(l, prev)
  IN SubSeq(l, 1, i) \o <<new>> \o SubSeq(l, i + 1, Len(l))

(***************************************************************************)
(* inputs_cmp: 1 if the first item should be after the second item.        *)
(***************************************************************************)
inputs_cmp_nonstrict(a, b) == IF a.type <= b.type THEN 1 ELSE 0

inputs_cmp(a, b) == IF a.type < b.type THEN 1 ELSE 0

(***************************************************************************)
(* BLI_listbase_sort: a stable sort; an element moves in front of another  *)
(* only when the callback says the other one should be after it.           *)
(***************************************************************************)
RECURSIVE SortedInsert(_, _)
SortedInsert(s, x) ==
  IF s = <<>> THEN <<x>>
  ELSE IF inputs_cmp(s[Len(s)], x) = 1
    THEN Append(SortedInsert(SubSeq(s, 1, Len(s) - 1), x), s[Len(s)])
    ELSE Append(s, x)

RECURSIVE BLI_listbase_sort(_)
BLI_listbase_sort(l) ==
  IF l = <<>> THEN <<>>
  ELSE SortedInsert(BLI_listbase_sort(SubSeq(l, 1, Len(l) - 1)), l[Len(l)])

(***************************************************************************)
(* gpu_uniformbuffer_inputs_sort, first loop: the lookup table of the      *)
(* first link of every type.  st = [lookup, cur_type, asserted].           *)
(***************************************************************************)
LookupInit ==
  [lookup |-> [t \in 0..MAX_UBO_GPU_TYPE |-> NULL],
   cur_type |-> MAX_UBO_GPU_TYPE + 1,
   asserted |-> FALSE]

LookupStep(st, link) ==
  IF link.type = GPU_MAT3 THEN [st EXCEPT !.asserted = TRUE]
  ELSE IF link.type > MAX_UBO_GPU_TYPE THEN [st EXCEPT !.asserted = TRUE]
  ELSE IF link.type = st.cur_type THEN st
  ELSE [st EXCEPT !.lookup[link.type] = link.id, !.cur_type = link.type]

RECURSIVE LookupLoop(_, _, _)
LookupLoop(l, i, st) ==
  IF i > Len(l) THEN st ELSE LookupLoop(l, i + 1, LookupStep(st, l[i]))

(***************************************************************************)
(* gpu_uniformbuffer_inputs_sort, second loop: walk the run of vec3 from   *)
(* inputs_lookup[GPU_VEC3], moving the next float after each of them.      *)
(* link and lf (inputs_lookup[GPU_FLOAT]) are link ids.                    *)
(***************************************************************************)
RECURSIVE MigrateLoop(_, _, _)
MigrateLoop(l, link, lf) ==
  IF link = NULL \/ TypeOf(l, link) # GPU_VEC3 THEN l
  ELSE LET link_next == NextOf(l, link)
       IN IF link_next = NULL \/ TypeOf(l, link_next) = GPU_FLOAT THEN l
          ELSE IF lf # NULL
            THEN LET float_input == l[IndexOf(l, lf)]
                     lf_next == NextOf(l, lf)
                 IN MigrateLoop(InsertLinkAfter(RemLink(l, lf), link, float_input),
                                link_next, lf_next)
            ELSE MigrateLoop(l, link_next, lf)

\* The function without its second loop.
gpu_uniformbuffer_inputs_sort_sortonly(inputs) ==
  LET sorted == BLI_listbase_sort(inputs)
  IN [list |-> sorted, asserted |-> LookupLoop(sorted, 1, LookupInit).asserted]

\* The whole function: [list, asserted].
gpu_uniformbuffer_inputs_sort(inputs) ==
  LET sorted == BLI_listbase_sort(inputs)
      st == LookupLoop(sorted, 1, LookupInit)
  IN [list |-> IF st.lookup[GPU_VEC3] = NULL
                 THEN sorted
                 ELSE MigrateLoop(sorted, st.lookup[GPU_VEC3], st.lookup[GPU_FLOAT]),
      asserted |-> st.asserted]

(***************************************************************************)
(* get_padded_gpu_type(link), link being the i-th link of the list.        *)
(***************************************************************************)
get_padded_gpu_type_nopad(l, i) == l[i].type

get_padded_gpu_type(l, i) ==
  IF l[i].type = GPU_VEC3 /\ i < Len(l) /\ l[i + 1].type # GPU_FLOAT
    THEN GPU_VEC4
    ELSE l[i].type

\* divide_ceil_u
divide_ceil_u(a, b) == (a + b - 1) \div b

(***************************************************************************)
(* GPU_uniformbuffer_dynamic_create, lines 191-199: the buffer size.       *)
(***************************************************************************)
RECURSIVE SumPadded(_, _)
SumPadded(l, i) ==
  IF i > Len(l) THEN 0
  ELSE get_padded_gpu_type(l, i) * SizeofFloat + SumPadded(l, i + 1)

BufferSize_norounding(l) == SumPadded(l, 1)

BufferSize(l) ==
  LET alignment == 4 * SizeofFloat
  IN divide_ceil_u(SumPadded(l, 1), alignment) * alignment

(***************************************************************************)
(* GPU_uniformbuffer_dynamic_create, lines 200-208: the block, in floats.  *)
(* MEM_mallocN does not initialise the block: every float starts as what   *)
(* the heap held there (heap), float by float.  A memcpy that runs past    *)
(* the block is recorded in overrun.                                       *)
(***************************************************************************)
\* offset of link i, in floats: the padded widths of the links before it,
\* each taken in the full list.
\* The offset advanced by input->type instead of the padded type.
RECURSIVE FloatOffset_unpadded(_, _)
FloatOffset_unpadded(l, i) ==
  IF i = 1 THEN 0 ELSE FloatOffset_unpadded(l, i - 1) + l[i - 1].type

RECURSIVE FloatOffset(_, _)
FloatOffset(l, i) ==
  IF i = 1 THEN 0 ELSE FloatOffset(l, i - 1) + get_padded_gpu_type(l, i - 1)

\* memcpy(offset, input->vec, input->type * sizeof(float)).  A type of more
\* than VecLen floats reads past input->vec: float VecLen + k of the source
\* is behind[k], what the memory behind the array holds.
Memcpy(block, offset, link, behind) ==
  [j \in 1..Len(block) |->
     IF j > offset /\ j <= offset + link.type
       THEN (IF j - offset <= VecLen THEN InputVec(link, j - offset)
                                     ELSE behind[j - offset - VecLen])
       ELSE block[j]]

\* What a float of the memory behind the vec of an input may hold (the rest
\* of the GPUInput and whatever follows it, which this program does not
\* define): 0, or -1, which stands for every other bit pattern.
BehindVals == {0, -1}

\* The floats behind input->vec that the memcpy of this link reads: mem
\* gives them for every input that is read past.
BehindOf(link, mem) == IF link.type > VecLen THEN mem[link.id] ELSE <<>>

\* Every memory the inputs of l that are read past may have behind them:
\* for each such input, the floats behind its vec that can be read, any
\* number of them up to the number the memcpy wants, and any value in each,
\* independently of the others.  Where fewer can be read than the memcpy
\* wants, the memory ends there (the next page is not mapped).
MemImages(l) ==
  LET over == {i \in 1..Len(l) : l[i].type > VecLen}
      images(i) == UNION {[1..r -> BehindVals] : r \in 0..(l[i].type - VecLen)}
  IN {m \in [{l[i].id : i \in over} -> UNION {images(i) : i \in over}] :
        \A i \in over : m[l[i].id] \in images(i)}

\* A memcpy of the loop over l reads where nothing can be read: the process
\* is killed (SIGSEGV).
Faults(l, mem) ==
  \E i \in 1..Len(l) : l[i].type > VecLen /\ Len(mem[l[i].id]) < l[i].type - VecLen

RECURSIVE PackLoop(_, _, _, _)
PackLoop(l, i, block, mem) ==
  IF i > Len(l) THEN block
  ELSE PackLoop(l, i + 1, Memcpy(block, FloatOffset(l, i), l[i], BehindOf(l[i], mem)), mem)

\* The block MEM_mallocN returns (heap) after the loop of memcpy.
PackedBlock(l, heap, mem) == PackLoop(l, 1, heap, mem)

\* What an uninitialised float of a fresh MEM_mallocN block may hold: 0, or
\* -1, which stands for every other bit pattern (a float of a block that was
\* freed earlier, allocator bookkeeping, anything else).
UninitVals == {0, -1}

\* Float j of the block of the sorted list l is written by one of the memcpy.
Written(l, j) ==
  \E i \in 1..Len(l) : j > FloatOffset(l, i) /\ j <= FloatOffset(l, i) + l[i].type

\* The fresh blocks MEM_mallocN may return for the sorted list l: every
\* float that no memcpy writes holds any of the uninitialised values,
\* independently of the others.  The floats that are written are given as
\* zero: what they held does not outlast the loop.
HeapImages(l) ==
  LET n == BufferSize(l) \div SizeofFloat
      unwritten == {j \in 1..n : ~Written(l, j)}
  IN {[j \in 1..n |-> IF j \in unwritten THEN f[j] ELSE 0] :
        f \in [unwritten -> UninitVals]}

\* What the packer reads without the program having defined it, for the
\* sorted list l: the fresh block and the memory behind the inputs.
PackEnvs(l) == {[heap |-> h, mem |-> m] : h \in HeapImages(l), m \in MemImages(l)}

\* Lines 189-199 of GPU_uniformbuffer_dynamic_create on a non-empty list:
\* the sorted list, the size and every link's float offset and width.
PackLayout(inputs) ==
  LET r == gpu_uniformbuffer_inputs_sort(inputs)
      l == r.list
  IN [list |-> l,
      asserted |-> r.asserted,
      size |-> BufferSize(l),
      offsets |-> [i \in 1..Len(l) |-> FloatOffset(l, i)],
      widths |-> [i \in 1..Len(l) |-> get_padded_gpu_type(l, i)],
      overread |-> \E i \in 1..Len(l) : l[i].type > VecLen,
      overrun |-> \E i \in 1..Len(l) :
                    (FloatOffset(l, i) + l[i].type) * SizeofFloat > BufferSize(l),
      block |-> <<>>]

\* Lines 200-208 on that layout: the block.
WithBlock(lay, env) == [lay EXCEPT !.block = PackedBlock(lay.list, env.heap, env.mem)]

\* Lines 189-208.
DynamicPack(inputs, env) == WithBlock(PackLayout(inputs), env)

(***************************************************************************)
(* Platform capabilities (GPU_extensions.h), queried at run time.          *)
(***************************************************************************)
\* GPU_max_ubo_size(), in bytes
GPU_max_ubo_size == 32
\* GPU_max_ubo_binds()
GPU_max_ubo_binds == 2

UboIds == 1..MaxUbos
Handles == 1..MaxUbos
Slots == 0..(GPU_max_ubo_binds - 1)

\* Sizes a caller passes to GPU_uniformbuffer_create: multiples of 16 up to
\* one step over the platform maximum.
StaticSizes == {GPU_max_ubo_size, GPU_max_ubo_size + 16}
\* The data a caller uploads: size bytes, every float of them 7.
UserData(size) == [j \in 1..(size \div SizeofFloat) |-> 7]
\* Input lists of the dynamic buffers of the lifecycle.
LifeTypes == {GPU_VEC4, GPU_MAT4}
\* Slot numbers a caller binds to: every slot and one past the last.
BindNumbers == 0..GPU_max_ubo_binds

\* ubo->data == NULL
NoData == <<>>

ErrTooBig == "GPUUniformBuffer: UBO too big"

(***************************************************************************)
(* State.                                                                  *)
(***************************************************************************)
VARIABLES
  build,      \* the build configuration
  p_pc,       \* packer run: "input", "packed", "aborted" or "crashed"
  p_inputs,   \* the caller's list
  p_out,      \* the result of the packer (DynamicPack), once packed
  pc,         \* the program: "running", "aborted" (BLI_assert) or "crashed"
  ubo,        \* the GPUUniformBuffer objects
  gl,         \* the GL buffer objects, by handle
  slots,      \* the GL_UNIFORM_BUFFER binding points: slot -> handle or 0
  lastOp,     \* the last call, its result and what it did
  hist        \* per buffer: what has happened to it so far

vars == <<build, p_pc, p_inputs, p_out, pc, ubo, gl, slots, lastOp, hist>>
packVars == <<p_pc, p_inputs, p_out>>
lifeVars == <<pc, ubo, gl, slots, lastOp, hist>>

NoPack == [list |-> <<>>, asserted |-> FALSE, size |-> 0, offsets |-> <<>>,
           widths |-> <<>>, overread |-> FALSE, overrun |-> FALSE, block |-> <<>>]

\* alive: "none" (not created), "live", "freed".
NoUbo == [alive |-> "none", size |-> 0, bindcode |-> 0, bindpoint |-> 0, data |-> NoData]
NoBuffer == [alloc |-> FALSE, storage |-> 0, contents |-> <<>>]
\* used: an update or an in-range bind was called; init_twice:
\* gpu_uniformbuffer_init was entered with bindcode # 0; data_frees: how
\* often the data block was released (up to 2); user_upload: the last
\* GPU_uniformbuffer_update by the caller reached the GL buffer.
NoHist == [dyn |-> FALSE, alloc_failed |-> FALSE, pend_uploads |-> 0,
           ever_bound |-> FALSE, bound |-> FALSE, used |-> FALSE,
           init_twice |-> FALSE, data_frees |-> 0, user_upload |-> FALSE]
\* op: the function called; u, arg: the buffer and the size or slot given;
\* ret: "ubo", "null" or "void"; calls: GPU and GL calls made; allocs:
\* MEM_mallocN calls made; gpu_allocs: GPU_buf_alloc calls made; frees: data
\* blocks released; null_access: a store through a NULL buffer;
\* err_supplied, err_out: the caller's message buffer, "" as the caller
\* passed it.
NoOp == [op |-> "none", u |-> 0, arg |-> 0, ret |-> "void", calls |-> 0,
         allocs |-> 0, gpu_allocs |-> 0, frees |-> 0, null_access |-> FALSE,
         err_supplied |-> FALSE, err_out |-> ""]

LifeInit ==
  /\ pc = "running"
  /\ ubo = [u \in UboIds |-> NoUbo]
  /\ gl = [h \in Handles |-> NoBuffer]
  /\ slots = [n \in Slots |-> 0]
  /\ lastOp = NoOp
  /\ hist = [u \in UboIds |-> NoHist]

(***************************************************************************)
(* PackSpec: the packer on every list of at most MaxLen inputs of the      *)
(* supported types, with every fresh block MEM_mallocN may return.         *)
(***************************************************************************)
PackInit ==
  /\ build \in Builds
  /\ p_pc = "input"
  /\ p_inputs \in ListsOver(SupportedTypes, MaxLen)
  /\ p_out = NoPack
  /\ LifeInit

\* BLI_assert fails on an unsupported type: the aborting build stops there.
PackAbort ==
  /\ p_pc = "input"
  /\ build = "debug_abort"
  /\ gpu_uniformbuffer_inputs_sort(p_inputs).asserted
  /\ p_pc' = "aborted"
  /\ UNCHANGED <<build, p_inputs, p_out>>
  /\ UNCHANGED lifeVars

PackRun ==
  /\ p_pc = "input"
  /\ ~(build = "debug_abort" /\ gpu_uniformbuffer_inputs_sort(p_inputs).asserted)
  /\ LET lay == PackLayout(p_inputs)
     IN \E env \in PackEnvs(lay.list) :
          /\ ~Faults(lay.list, env.mem)
          /\ p_out' = WithBlock(lay, env)
  /\ p_pc' = "packed"
  /\ UNCHANGED <<build, p_inputs>>
  /\ UNCHANGED lifeVars

\* The memcpy of line 206 reads past input->vec into memory that cannot be
\* read: the process is killed inside GPU_uniformbuffer_dynamic_create.
PackCrash ==
  /\ p_pc = "input"
  /\ ~(build = "debug_abort" /\ gpu_uniformbuffer_inputs_sort(p_inputs).asserted)
  /\ LET lay == PackLayout(p_inputs)
     IN \E env \in PackEnvs(lay.list) : Faults(lay.list, env.mem)
  /\ p_pc' = "crashed"
  /\ UNCHANGED <<build, p_inputs, p_out>>
  /\ UNCHANGED lifeVars

PackNext == PackAbort \/ PackRun \/ PackCrash

PackSpec == PackInit /\ [][PackRun]_vars

(***************************************************************************)
(* RejectSpec: the packer on the lists of at most MaxRejectLen inputs,     *)
(* GPU_MAT3 and a type past GPU_MAT4 included.                             *)
(***************************************************************************)
RejectInit ==
  /\ build \in Builds
  /\ p_pc = "input"
  /\ p_inputs \in ListsOver(AllTypes, MaxRejectLen)
  /\ p_out = NoPack
  /\ LifeInit

RejectSpec == RejectInit /\ [][PackNext]_vars

(***************************************************************************)
(* The lifecycle.  A call works on a context s: the buffer it is given     *)
(* (s.u, with its history s.h), the GL state (s.gl, s.slots) and what the  *)
(* call has done so far: GPU/GL calls made, blocks allocated, a failed     *)
(* BLI_assert, GPU_buf_alloc calls made (s.nalloc).                        *)
(***************************************************************************)
Ctx(u) ==
  [u |-> ubo[u], h |-> hist[u], gl |-> gl, slots |-> slots, calls |-> 0,
   allocs |-> 0, asserted |-> FALSE, aborted |-> FALSE, nalloc |-> 0,
   frees |-> 0]

\* A BLI_assert whose condition is false: compiled out in the release build,
\* printed in the debug build, abort() in the aborting build.
AssertFails(s) ==
  [s EXCEPT !.asserted = (build # "release"), !.aborted = (build = "debug_abort")]

\* GPU_buf_alloc (glGenBuffers): a fresh handle, or 0 when it fails.
GPU_buf_alloc(g, ok) ==
  IF ok /\ \E h \in DOMAIN g : ~g[h].alloc
    THEN CHOOSE h \in DOMAIN g : ~g[h].alloc /\ \A k \in DOMAIN g : ~g[k].alloc => h <= k
    ELSE 0

\* glBufferSubData on the buffer bound to GL_UNIFORM_BUFFER: an error that
\* changes nothing when no buffer is bound or the range is outside its storage.
GlBufferSubData(g, code, size, data) ==
  IF code # 0 /\ g[code].alloc /\ size <= g[code].storage
    THEN [g EXCEPT ![code].contents = SubSeq(data, 1, size \div SizeofFloat)]
    ELSE g

\* glBindBufferBase(GL_UNIFORM_BUFFER, index, buffer): an error that changes
\* nothing when index is no binding point.
GlBindBufferBase(sl, index, buffer) ==
  IF index \in Slots THEN [sl EXCEPT ![index] = buffer] ELSE sl

\* GPU_buf_free (glDeleteBuffers): the name is released and every binding
\* point holding it reverts to 0; 0 is ignored.
GPU_buf_free(s) ==
  LET code == s.u.bindcode
  IN IF code = 0 THEN [s EXCEPT !.calls = @ + 1]
     ELSE [s EXCEPT !.gl[code] = NoBuffer,
                    !.slots = [n \in Slots |-> IF s.slots[n] = code THEN 0 ELSE s.slots[n]],
                    !.calls = @ + 1]

gpu_uniformbuffer_init(s, oks) ==
  LET s0 == IF s.u.bindcode = 0 THEN s
            ELSE AssertFails([s EXCEPT !.h.init_twice = TRUE])
  IN IF s0.aborted THEN s0
     ELSE LET code == GPU_buf_alloc(s0.gl, oks[s0.nalloc + 1])
              s1 == [s0 EXCEPT !.u.bindcode = code, !.nalloc = @ + 1, !.calls = @ + 1]
          IN IF code = 0
               THEN AssertFails([s1 EXCEPT !.h.alloc_failed = TRUE])
               ELSE [s1 EXCEPT !.gl[code] = [alloc |-> TRUE, storage |-> s1.u.size,
                                             contents |-> <<>>],
                               !.calls = @ + 2]

\* GPU_uniformbuffer_update that initialises whatever bindcode is.
GPU_uniformbuffer_update_always_init(s, data, oks) ==
  LET s0 == [s EXCEPT !.h.used = TRUE]
      s1 == gpu_uniformbuffer_init(s0, oks)
  IN IF s1.aborted THEN s1
     ELSE [s1 EXCEPT !.gl = GlBufferSubData(@, s1.u.bindcode, s1.u.size, data),
                     !.calls = @ + 3]

GPU_uniformbuffer_update(s, data, oks) ==
  LET s0 == [s EXCEPT !.h.used = TRUE]
      s1 == IF s0.u.bindcode = 0 THEN gpu_uniformbuffer_init(s0, oks) ELSE s0
  IN IF s1.aborted THEN s1
     ELSE [s1 EXCEPT !.gl = GlBufferSubData(@, s1.u.bindcode, s1.u.size, data),
                     !.calls = @ + 3]

\* MEM_freeN(data) without the test for NULL.
MemSafeFree_nonull(s) ==
  [s EXCEPT !.u.data = NoData, !.h.data_frees = IF @ < 2 THEN @ + 1 ELSE 2,
            !.frees = @ + 1]

\* MEM_SAFE_FREE(ubo->data): frees a block that is there and clears the field.
MemSafeFree(s) ==
  IF s.u.data # NoData
    THEN [s EXCEPT !.u.data = NoData, !.h.data_frees = IF @ < 2 THEN @ + 1 ELSE 2,
                   !.frees = @ + 1]
    ELSE s

\* number >= GPU_max_ubo_binds()
SlotOutOfRange_strict(number) == number > GPU_max_ubo_binds

SlotOutOfRange(number) == number >= GPU_max_ubo_binds

Inc2(n) == IF n < 2 THEN n + 1 ELSE 2

\* GPU_uniformbuffer_bind, lines 254-257: upload the pending data, free it.
BindPending_keep(s, oks) ==
  IF s.u.data # NoData
    THEN LET s1 == GPU_uniformbuffer_update(s, s.u.data, oks)
         IN IF s1.aborted THEN s1
            ELSE [s1 EXCEPT !.h.pend_uploads =
                              IF s1.u.bindcode # 0 THEN Inc2(@) ELSE @]
    ELSE s

BindPending(s, oks) ==
  IF s.u.data # NoData
    THEN LET s1 == GPU_uniformbuffer_update(s, s.u.data, oks)
         IN IF s1.aborted THEN s1
            ELSE MemSafeFree([s1 EXCEPT !.h.pend_uploads =
                                          IF s1.u.bindcode # 0 THEN Inc2(@) ELSE @])
    ELSE s

GPU_uniformbuffer_bind(s, number, oks) ==
  IF SlotOutOfRange(number) THEN s
  ELSE LET s0 == [s EXCEPT !.h.used = TRUE]
           s1 == IF s0.u.bindcode = 0 THEN gpu_uniformbuffer_init(s0, oks) ELSE s0
           s2 == IF s1.aborted THEN s1 ELSE BindPending(s1, oks)
       IN IF s2.aborted THEN s2
          ELSE [s2 EXCEPT !.slots = GlBindBufferBase(@, number, s2.u.bindcode),
                          !.calls = @ + 1,
                          !.u.bindpoint = number,
                          !.h.bound = TRUE,
                          !.h.ever_bound = TRUE]

GPU_uniformbuffer_unbind(s) ==
  LET s1 == IF build # "release"
              THEN [s EXCEPT !.slots = GlBindBufferBase(@, s.u.bindpoint, 0),
                             !.calls = @ + 1]
              ELSE s
  IN [s1 EXCEPT !.u.bindpoint = 0, !.h.bound = FALSE]

\* After the call nothing of the object is left; of its history only what
\* kind of buffer it was and how often its block was released.
GPU_uniformbuffer_free(s) ==
  LET s1 == GPU_buf_free(MemSafeFree(s))
  IN [s1 EXCEPT !.u = [NoUbo EXCEPT !.alive = "freed"],
                !.h = [NoHist EXCEPT !.dyn = s1.h.dyn,
                                     !.data_frees = s1.h.data_frees]]

\* size > GPU_max_ubo_size()
TooLarge_nonstrict(size) == size >= GPU_max_ubo_size

TooLarge(size) == size > GPU_max_ubo_size

\* GPU_uniformbuffer_create past the size test: the new object in s.u.
GPU_uniformbuffer_create(s, size, hasData, oks) ==
  LET s0 == IF size % 16 = 0 THEN s ELSE AssertFails(s)
      s1 == [s0 EXCEPT !.u = [alive |-> "live", size |-> size, bindcode |-> 0,
                              bindpoint |-> -1, data |-> NoData],
                       !.allocs = @ + 1]
  IN IF s0.aborted THEN s0
     ELSE IF hasData THEN GPU_uniformbuffer_update(s1, UserData(size), oks)
     ELSE s1

(***************************************************************************)
(* The calls a caller makes.                                               *)
(***************************************************************************)
Op(name, u, arg, ret, s, nullAccess, errSupplied, err) ==
  [op |-> name, u |-> u, arg |-> arg, ret |-> ret, calls |-> s.calls,
   allocs |-> s.allocs, gpu_allocs |-> s.nalloc, frees |-> s.frees,
   null_access |-> nullAccess, err_supplied |-> errSupplied,
   err_out |-> err]

\* A call that returns nothing and takes no message buffer.
VoidOp(name, u, arg, s) == Op(name, u, arg, "void", s, FALSE, FALSE, "")

\* BLI_strncpy(err_out, ..., 256) when err_out is given.
ErrWritten(errSupplied) == IF errSupplied THEN ErrTooBig ELSE ""

\* The state after a call on buffer u that ended in context s.
Commit(u, s) ==
  /\ ubo' = [ubo EXCEPT ![u] = s.u]
  /\ hist' = [hist EXCEPT ![u] = s.h]
  /\ gl' = s.gl
  /\ slots' = s.slots
  /\ pc' = IF s.aborted THEN "aborted" ELSE "running"

\* What the GPU_buf_alloc calls of one call on buffer u return (TRUE: a
\* handle), for at most n calls; a buffer that has its handle makes none.
AllocOutcomes(u, n) ==
  IF ubo[u].bindcode # 0 THEN {<<TRUE, TRUE>>}
  ELSE {o \in [1..2 -> BOOLEAN] : n = 1 => o[2] = o[1]}
\* Buffers are created in the order of their ids.
NextFree(u) ==
  ubo[u].alive = "none" /\ \A v \in DOMAIN ubo : v < u => ubo[v].alive # "none"

CreateTooLarge(u, size, errSupplied) ==
  /\ pc = "running" /\ NextFree(u)
  /\ size % 16 = 0
  /\ TooLarge(size)
  /\ lastOp' = Op("create", u, size, "null", Ctx(u), FALSE, errSupplied,
                  ErrWritten(errSupplied))
  /\ UNCHANGED <<pc, ubo, gl, slots, hist>>
  /\ UNCHANGED <<build, packVars>>

Create(u, size, hasData, errSupplied) ==
  /\ pc = "running" /\ NextFree(u)
  /\ size % 16 = 0
  /\ ~TooLarge(size)
  /\ \E oks \in AllocOutcomes(u, 1) :
       LET s0 == GPU_uniformbuffer_create(Ctx(u), size, hasData, oks)
           s == [s0 EXCEPT !.h.user_upload =
                             (hasData /\ ~s0.aborted /\ s0.u.bindcode # 0)]
       IN /\ Commit(u, s)
          /\ lastOp' = Op("create", u, size, IF s.aborted THEN "void" ELSE "ubo",
                          s, FALSE, errSupplied, "")
  /\ UNCHANGED <<build, packVars>>

\* A list that is never taken for empty.
ListIsEmpty_never(inputs) == FALSE

\* BLI_listbase_is_empty(inputs).
ListIsEmpty(inputs) == inputs = <<>>

DynamicCreateEmpty(u, inputs, errSupplied) ==
  /\ pc = "running" /\ NextFree(u)
  /\ ListIsEmpty(inputs)
  /\ lastOp' = Op("dynamic_create", u, 0, "null", Ctx(u), FALSE, errSupplied, "")
  /\ UNCHANGED <<pc, ubo, gl, slots, hist>>
  /\ UNCHANGED <<build, packVars>>

\* The packed size is over the maximum: GPU_uniformbuffer_create returns NULL
\* and line 213 stores through it.  What the store through NULL does is not
\* defined: the process is killed, or the store is dropped and NULL returned.
DynamicCreateTooLarge(u, inputs, env, errSupplied, outcome) ==
  /\ pc = "running" /\ NextFree(u)
  /\ ~ListIsEmpty(inputs)
  /\ LET r == DynamicPack(inputs, env)
     IN /\ ~(r.asserted /\ build = "debug_abort")
        /\ TooLarge(r.size)
        /\ lastOp' = [Op("dynamic_create", u, r.size, "null", Ctx(u), TRUE,
                           errSupplied, ErrWritten(errSupplied))
                        EXCEPT !.allocs = 1]
  /\ pc' = IF outcome = "crash" THEN "crashed" ELSE "running"
  /\ UNCHANGED <<ubo, gl, slots, hist>>
  /\ UNCHANGED <<build, packVars>>

DynamicCreate(u, inputs, env, errSupplied) ==
  /\ pc = "running" /\ NextFree(u)
  /\ ~ListIsEmpty(inputs)
  /\ LET r == DynamicPack(inputs, env)
         s0 == [Ctx(u) EXCEPT !.allocs = 1]
         s1 == GPU_uniformbuffer_create(s0, r.size, FALSE, <<FALSE, FALSE>>)
         s2 == [s1 EXCEPT !.u.data = r.block, !.h.dyn = TRUE]
     IN /\ ~(r.asserted /\ build = "debug_abort")
        /\ ~TooLarge(r.size)
        /\ Commit(u, s2)
        /\ lastOp' = Op("dynamic_create", u, r.size, "ubo", s2, FALSE, errSupplied, "")
  /\ UNCHANGED <<build, packVars>>

Live(u) == ubo[u].alive = "live"

Update(u) ==
  /\ pc = "running" /\ Live(u)
  /\ \E oks \in AllocOutcomes(u, 1) :
       LET s0 == GPU_uniformbuffer_update(Ctx(u), UserData(ubo[u].size), oks)
           s == [s0 EXCEPT !.h.user_upload = (~s0.aborted /\ s0.u.bindcode # 0)]
       IN /\ Commit(u, s)
          /\ lastOp' = VoidOp("update", u, 0, s)
  /\ UNCHANGED <<build, packVars>>

Bind(u, number) ==
  /\ pc = "running" /\ Live(u)
  /\ \E oks \in AllocOutcomes(u, 2) :
       LET s == GPU_uniformbuffer_bind(Ctx(u), number, oks)
       IN /\ Commit(u, s)
          /\ lastOp' = VoidOp("bind", u, number, s)
  /\ UNCHANGED <<build, packVars>>

Unbind(u) ==
  /\ pc = "running" /\ Live(u)
  /\ LET s == GPU_uniformbuffer_unbind(Ctx(u))
     IN /\ Commit(u, s)
        /\ lastOp' = VoidOp("unbind", u, 0, s)
  /\ UNCHANGED <<build, packVars>>

UnbindAll ==
  /\ pc = "running"
  /\ slots' = [n \in Slots |-> 0]
  /\ hist' = [u \in DOMAIN hist |-> [hist[u] EXCEPT !.bound = FALSE]]
  /\ lastOp' = [NoOp EXCEPT !.op = "unbind_all", !.calls = GPU_max_ubo_binds]
  /\ UNCHANGED <<pc, ubo, gl, build, packVars>>

Free(u) ==
  /\ pc = "running" /\ Live(u)
  /\ LET s == GPU_uniformbuffer_free(Ctx(u))
     IN /\ Commit(u, s)
        /\ lastOp' = VoidOp("free", u, 0, s)
  /\ UNCHANGED <<build, packVars>>

DynLists == ListsOver(LifeTypes, MaxDynLen) \cup {<<>>}

Init ==
  /\ build \in Builds
  /\ p_pc = "input"
  /\ p_inputs = <<>>
  /\ p_out = NoPack
  /\ LifeInit

Next ==
  \/ \E u \in UboIds, size \in StaticSizes, e \in BOOLEAN : CreateTooLarge(u, size, e)
  \/ \E u \in UboIds, size \in StaticSizes, d \in BOOLEAN, e \in BOOLEAN :
        Create(u, size, d, e)
  \/ \E u \in UboIds, l \in DynLists, e \in BOOLEAN : DynamicCreateEmpty(u, l, e)
  \/ \E u \in UboIds, l \in DynLists, e \in BOOLEAN, o \in {"crash", "continue"} :
        \E env \in PackEnvs(PackLayout(l).list) :
           DynamicCreateTooLarge(u, l, env, e, o)
  \/ \E u \in UboIds, l \in DynLists, e \in BOOLEAN :
        \E env \in PackEnvs(PackLayout(l).list) : DynamicCreate(u, l, env, e)
  \/ \E u \in UboIds : Update(u)
  \/ \E u \in UboIds, n \in BindNumbers : Bind(u, n)
  \/ \E u \in UboIds : Unbind(u)
  \/ UnbindAll
  \/ \E u \in UboIds : Free(u)

Spec == Init /\ [][Next]_vars

(***************************************************************************)
(* MultiSpec: MaxMulti static buffers that are created, bound and unbound  *)
(* in every order.                                                         *)
(***************************************************************************)
MultiIds == 1..MaxMulti

MultiInit ==
  /\ build \in Builds
  /\ p_pc = "input"
  /\ p_inputs = <<>>
  /\ p_out = NoPack
  /\ pc = "running"
  /\ ubo = [u \in MultiIds |-> NoUbo]
  /\ gl = [h \in MultiIds |-> NoBuffer]
  /\ slots = [n \in Slots |-> 0]
  /\ lastOp = NoOp
  /\ hist = [u \in MultiIds |-> NoHist]

MultiNext ==
  \/ \E u \in MultiIds, size \in StaticSizes : Create(u, size, FALSE, FALSE)
  \/ \E u \in MultiIds, n \in BindNumbers : Bind(u, n)
  \/ \E u \in MultiIds : Unbind(u)

MultiSpec == MultiInit /\ [][MultiNext]_vars

(***************************************************************************)
(* Properties of the packer (PackSpec).                                    *)
(***************************************************************************)
Packed == p_pc = "packed"
Supported(l) == \A i \in 1..Len(l) : l[i].type \in SupportedTypes
CountOf(l, t) == Cardinality({i \in 1..Len(l) : l[i].type = t})
Min(a, b) == IF a < b THEN a ELSE b

\* Link i of l is a vec3 immediately followed by a float.
Paired(l, i) == l[i].type = GPU_VEC3 /\ i < Len(l) /\ l[i + 1].type = GPU_FLOAT

\* C5: with N vec3 and M float in a list of supported inputs, exactly
\* min(N, M) vec3 are immediately followed by a float after the sort, they
\* are the first min(N, M) vec3 of the final order, and such a pair takes
\* exactly 4 floats (16 bytes) of the layout.
C5_FloatFillsVec3 ==
  (Packed /\ Supported(p_inputs)) =>
    LET l == p_out.list
        pairs == {i \in 1..Len(l) : Paired(l, i)}
    IN /\ Cardinality(pairs) = Min(CountOf(p_inputs, GPU_VEC3), CountOf(p_inputs, GPU_FLOAT))
       /\ \A i, j \in 1..Len(l) :
            (i < j /\ l[i].type = GPU_VEC3 /\ j \in pairs) => i \in pairs
       /\ \A i \in pairs :
            /\ p_out.offsets[i + 1] = p_out.offsets[i] + GPU_VEC3
            /\ (i + 1 < Len(l)) => p_out.offsets[i + 2] = p_out.offsets[i] + GPU_VEC4
       /\ (Len(l) = 2 /\ pairs # {}) => p_out.size = 4 * SizeofFloat

\* C5 witness: three vec3 and two float, given floats first: the first two
\* vec3 of the final order got a float, the third did not.
C5_Witness ==
  /\ Packed /\ Supported(p_inputs)
  /\ CountOf(p_inputs, GPU_VEC3) = 3 /\ CountOf(p_inputs, GPU_FLOAT) = 2
  /\ p_inputs[1].type = GPU_FLOAT
  /\ Cardinality({i \in 1..Len(p_out.list) : Paired(p_out.list, i)}) = 2

\* The effective width the specification gives link i of the final order.
EffectiveWidth(l, i) ==
  IF l[i].type = GPU_VEC3
    THEN (IF Paired(l, i) THEN GPU_VEC3 ELSE GPU_VEC4)
    ELSE l[i].type

RECURSIVE SumEffective(_, _)
SumEffective(l, i) ==
  IF i > Len(l) THEN 0 ELSE EffectiveWidth(l, i) + SumEffective(l, i + 1)

RoundUp16(n) == ((n + 15) \div 16) * 16

\* C6: the size of the buffer is roundUp16(4 * sum of effective widths),
\* a vec3 counting 3 only when a float follows it and 4 otherwise (also as
\* the last entry), and the size is a positive multiple of 16.
C6_TotalSize ==
  (Packed /\ Supported(p_inputs)) =>
    /\ p_out.size = RoundUp16(SizeofFloat * SumEffective(p_out.list, 1))
    /\ p_out.size > 0
    /\ p_out.size % 16 = 0

\* C6 witness: a list that ends in a vec3 with no float, and a size that is
\* not the plain sum of the component counts.
C6_Witness ==
  /\ Packed /\ Supported(p_inputs)
  /\ p_out.list[Len(p_out.list)].type = GPU_VEC3
  /\ CountOf(p_inputs, GPU_VEC3) = 2
  /\ CountOf(p_inputs, GPU_VEC4) = 1
  /\ p_out.size = 48

\* C7: every input's values are at its own offset (the padded widths of the
\* links before it), the written ranges of two inputs are disjoint, every
\* write is inside the block of size bytes, and the componentCount floats
\* read back at the offset are the input's values.
C7_RoundTrip ==
  (Packed /\ Supported(p_inputs)) =>
    LET l == p_out.list
        off == p_out.offsets
    IN /\ Len(p_out.block) * SizeofFloat = p_out.size
       /\ ~p_out.overrun
       /\ off[1] = 0
       /\ \A i \in 1..(Len(l) - 1) : off[i + 1] = off[i] + EffectiveWidth(l, i)
       /\ \A i \in 1..Len(l) : off[i] + l[i].type <= Len(p_out.block)
       /\ \A i, j \in 1..Len(l) :
            i < j => off[i] + l[i].type <= off[j]
       /\ \A i \in 1..Len(l) : \A k \in 1..l[i].type :
            p_out.block[off[i] + k] = InputVec(l[i], k)

\* C7 witness: a packed list with a padded vec3, a moved float and a mat4.
C7_Witness ==
  /\ Packed /\ Supported(p_inputs)
  /\ Len(p_inputs) = 5
  /\ p_inputs[1].type = GPU_FLOAT /\ p_inputs[5].type = GPU_MAT4
  /\ CountOf(p_inputs, GPU_VEC3) = 2
  /\ p_out.list[3].type = GPU_FLOAT
  /\ p_out.block[17] = InputVec(p_out.list[2], 1)

\* Link i of l is a float that sits directly after a vec3.
AfterVec3(l, i) == l[i].type = GPU_FLOAT /\ i > 1 /\ l[i - 1].type = GPU_VEC3

\* C8: the sorted list is a permutation of the input, inputs of one kind
\* keep their input order, the kinds descend except for a float directly
\* after a vec3, and without vec3 the list is the stable descending sort.
C8_StableSort ==
  (Packed /\ Supported(p_inputs)) =>
    LET l == p_out.list
    IN /\ Len(l) = Len(p_inputs)
       /\ {l[i].id : i \in 1..Len(l)} = 1..Len(p_inputs)
       /\ \A i \in 1..Len(l) : p_inputs[l[i].id] = l[i]
       /\ \A i, j \in 1..Len(l) :
            (i < j /\ l[i].type = l[j].type) => l[i].id < l[j].id
       /\ \A i, j \in 1..Len(l) :
            (i < j /\ ~AfterVec3(l, i) /\ ~AfterVec3(l, j)) => l[i].type >= l[j].type
       /\ CountOf(p_inputs, GPU_VEC3) = 0 =>
            \A i, j \in 1..Len(l) :
              i < j => \/ l[i].type > l[j].type
                       \/ l[i].type = l[j].type /\ l[i].id < l[j].id

\* C8 witness: two floats were moved, each after one of two vec3, and kept
\* their input order.
C8_Witness ==
  /\ Packed /\ Supported(p_inputs)
  /\ Len(p_inputs) = 5
  /\ p_inputs[1].type = GPU_FLOAT /\ p_inputs[2].type = GPU_VEC2
  /\ p_inputs[3].type = GPU_FLOAT
  /\ p_out.list[2].id = 1 /\ p_out.list[4].id = 3 /\ p_out.list[5].id = 2

\* C14: a list with a GPU_MAT3, or a type past GPU_MAT4, never yields a
\* packed buffer: wherever the entry stands, the packer stops in the fatal
\* assertion, no size is computed and no bytes are written.
C14_UnsupportedNeverPacked ==
  ~Supported(p_inputs) => (p_pc \in {"input", "aborted"} /\ p_out = NoPack)

\* C15: get_padded_gpu_type gives 4 to every vec3 that is not immediately
\* followed by a float in the final order, a vec3 that ends the list included.
C15_Vec3PaddedUnlessFloat ==
  (Packed /\ Supported(p_inputs)) =>
    \A i \in 1..Len(p_out.list) :
      (p_out.list[i].type = GPU_VEC3 /\ ~Paired(p_out.list, i)) =>
        p_out.widths[i] = GPU_VEC4

\* Float j of the block holds a value of one of the inputs.
Covered(j) ==
  \E i \in 1..Len(p_out.list) :
    j > p_out.offsets[i] /\ j <= p_out.offsets[i] + p_out.list[i].type

\* C16: every float of the block that holds no input value (the padding of
\* a vec3, the tail added by the rounding) is zero.
C16_ZeroInitialised ==
  (Packed /\ Supported(p_inputs)) =>
    \A j \in 1..Len(p_out.block) : ~Covered(j) => p_out.block[j] = 0

\* C17: in the final order every mat4, vec4 and vec3 starts at a byte
\* offset that is a multiple of 16 and every vec2 at a multiple of 8.
C17_Alignment ==
  (Packed /\ Supported(p_inputs)) =>
    \A i \in 1..Len(p_out.list) :
      /\ p_out.list[i].type \in {GPU_MAT4, GPU_VEC4, GPU_VEC3} =>
           (p_out.offsets[i] * SizeofFloat) % 16 = 0
      /\ p_out.list[i].type = GPU_VEC2 =>
           (p_out.offsets[i] * SizeofFloat) % 8 = 0

\* C17 witness: two vec3, one vec2 and two floats: the vec2 starts at byte
\* 32, behind two vec3 that each got a float.
C17_Witness ==
  /\ Packed /\ Supported(p_inputs)
  /\ Len(p_inputs) = 5
  /\ CountOf(p_inputs, GPU_VEC3) = 2 /\ CountOf(p_inputs, GPU_FLOAT) = 2
  /\ p_inputs[1].type = GPU_VEC2
  /\ p_out.list[5].type = GPU_VEC2 /\ p_out.offsets[5] * SizeofFloat = 32

(***************************************************************************)
(* Properties of the lifecycle (Spec).                                     *)
(***************************************************************************)
\* C1: GPU_uniformbuffer_dynamic_create on a list whose packed size is over
\* GPU_max_ubo_size() returns NULL without touching a buffer that was not
\* created, and the program goes on running.
C1_OversizeRecoverable ==
  (lastOp.op = "dynamic_create" /\ lastOp.arg > GPU_max_ubo_size) =>
    /\ lastOp.ret = "null"
    /\ ~lastOp.null_access
    /\ pc = "running"

\* C2: GPU_uniformbuffer_create with size over the maximum returns NULL,
\* writes a message when err_out is given, allocates nothing and makes no
\* GPU call; with size within the maximum it returns a buffer and leaves
\* err_out as the caller passed it.
C2_CreateTooLarge ==
  lastOp.op = "create" =>
    /\ lastOp.arg > GPU_max_ubo_size =>
         /\ lastOp.ret = "null"
         /\ lastOp.err_supplied => lastOp.err_out # ""
         /\ lastOp.allocs = 0 /\ lastOp.calls = 0
         /\ ubo[lastOp.u] = NoUbo
         /\ pc = "running"
    /\ lastOp.arg <= GPU_max_ubo_size =>
         /\ lastOp.err_out = ""
         /\ pc = "running" => (lastOp.ret = "ubo" /\ ubo[lastOp.u].alive = "live")

\* C2 witness: a create over the maximum, with a message buffer, has
\* returned NULL with the message written.
C2_Witness ==
  /\ lastOp.op = "create" /\ lastOp.arg > GPU_max_ubo_size
  /\ lastOp.err_supplied /\ lastOp.err_out = ErrTooBig
  /\ lastOp.ret = "null"

\* C3: a dynamic buffer whose GPU allocation did not fail holds its packed
\* payload, not uploaded, until the first in-range bind; from that bind on
\* the payload has been uploaded exactly once and ubo->data is NULL.
C3_UploadOnce ==
  \A u \in UboIds :
    (ubo[u].alive = "live" /\ hist[u].dyn /\ ~hist[u].alloc_failed) =>
      IF hist[u].ever_bound
        THEN ubo[u].data = NoData /\ hist[u].pend_uploads = 1
        ELSE ubo[u].data # NoData /\ hist[u].pend_uploads = 0

\* C3 witness: a dynamic buffer bound before is bound again, after an
\* unbind, and this bind made the attach call only.
C3_Witness ==
  /\ lastOp.op = "bind" /\ lastOp.arg < GPU_max_ubo_binds /\ lastOp.calls = 1
  /\ hist[lastOp.u].dyn /\ ~hist[lastOp.u].alloc_failed
  /\ hist[lastOp.u].pend_uploads = 1
  /\ ubo[lastOp.u].bindpoint = 1
  /\ gl[ubo[lastOp.u].bindcode].contents # <<>>

\* C4: a bind to a slot number >= GPU_max_ubo_binds() changes nothing: not
\* the buffer (bindpoint, bindcode, pending data), not the GL buffers, not
\* the bind table, and it makes no GPU call and no allocation.
C4_BindOutOfRangeNoop ==
  [][(lastOp'.op = "bind" /\ lastOp'.arg >= GPU_max_ubo_binds) =>
       /\ ubo' = ubo /\ gl' = gl /\ slots' = slots /\ hist' = hist /\ pc' = pc
       /\ lastOp'.calls = 0 /\ lastOp'.allocs = 0]_vars

\* C4 witness: an out-of-range bind of a dynamic buffer that still holds
\* its pending data and has no GPU resource.
C4_Witness ==
  /\ lastOp.op = "bind" /\ lastOp.arg >= GPU_max_ubo_binds
  /\ ubo[lastOp.u].alive = "live"
  /\ ubo[lastOp.u].data # NoData /\ ubo[lastOp.u].bindcode = 0

\* C9: bindpoint holds a slot index in [0, maxSlots) only while the buffer
\* is bound (bound by an in-range bind and not unbound since).
C9_SlotOnlyWhileBound ==
  \A u \in UboIds :
    (ubo[u].alive = "live" /\ ubo[u].bindpoint \in Slots) => hist[u].bound

\* C10: a buffer that holds pending data has had no data uploaded to its
\* GPU resource.
C10_PendingExcludesUploaded ==
  \A u \in UboIds :
    (ubo[u].alive = "live" /\ ubo[u].data # NoData) =>
      (ubo[u].bindcode = 0 \/ gl[ubo[u].bindcode].contents = <<>>)

\* C13: GPU_uniformbuffer_dynamic_create on an empty list (the only list of
\* packed size 0) returns NULL and reports nothing: err_out is not written,
\* nothing is allocated, no buffer exists, no GPU call is made, and the
\* program goes on.
C13_EmptyListNull ==
  (lastOp.op = "dynamic_create" /\ lastOp.arg = 0) =>
    /\ lastOp.ret = "null"
    /\ lastOp.err_out = ""
    /\ lastOp.allocs = 0
    /\ lastOp.calls = 0
    /\ ~lastOp.null_access
    /\ ubo[lastOp.u].alive = "none"
    /\ pc = "running"

\* C13 witness: the call was made on an empty list with a message buffer.
C13_Witness ==
  /\ lastOp.op = "dynamic_create" /\ lastOp.arg = 0
  /\ lastOp.err_supplied /\ lastOp.ret = "null"

\* C11: the GPU resource is allocated lazily and at most once.  A buffer on
\* which no update and no in-range bind was called (create without data,
\* dynamic_create) has bindcode 0 and its creation made no GPU call;
\* GPU_buf_alloc is called only by create with data, update and in-range
\* bind, and only while the buffer has no handle (once per call unless the
\* allocation failed); gpu_uniformbuffer_init is never entered with
\* bindcode # 0.
C11_LazyAllocOnce ==
  /\ \A u \in UboIds :
       /\ (ubo[u].alive = "live" /\ ~hist[u].used) =>
            /\ ubo[u].bindcode = 0
            /\ (lastOp.op \in {"create", "dynamic_create"} /\ lastOp.u = u) =>
                 (lastOp.calls = 0 /\ lastOp.gpu_allocs = 0)
       /\ ~hist[u].init_twice
       /\ (ubo[u].alive = "live" /\ ubo[u].bindcode # 0) =>
            /\ gl[ubo[u].bindcode].alloc
            /\ (lastOp.u = u /\ ~hist[u].alloc_failed) => lastOp.gpu_allocs <= 1
  /\ lastOp.gpu_allocs > 0 =>
       /\ lastOp.op \in {"create", "update", "bind"}
       /\ lastOp.op = "bind" => ~SlotOutOfRange(lastOp.arg)
       /\ hist[lastOp.u].used

\* C11 witness: a buffer that has its handle was updated again and bound,
\* and that call allocated nothing.
C11_Witness ==
  /\ lastOp.op = "bind" /\ ~SlotOutOfRange(lastOp.arg)
  /\ lastOp.gpu_allocs = 0 /\ lastOp.calls = 1
  /\ ubo[lastOp.u].bindcode # 0 /\ hist[lastOp.u].user_upload

\* C12: GPU_uniformbuffer_free ends normally in whatever state the buffer
\* is, leaving neither its GL buffer nor a slot holding it, and the pending
\* block is released exactly once: a live dynamic buffer has released it
\* once exactly when it holds none, a freed one once, a static buffer never.
C12_FreeOnce ==
  /\ \A u \in UboIds :
       /\ ubo[u].alive = "live" =>
            hist[u].data_frees = IF hist[u].dyn /\ ubo[u].data = NoData THEN 1 ELSE 0
       /\ ubo[u].alive = "freed" =>
            hist[u].data_frees = IF hist[u].dyn THEN 1 ELSE 0
  /\ lastOp.op = "free" =>
       /\ pc = "running"
       /\ ubo[lastOp.u].alive = "freed"
       /\ lastOp.frees <= 1

\* C12 witness: a dynamic buffer whose block the bind had released was
\* freed, and free released no block.
C12_Witness ==
  /\ lastOp.op = "free" /\ lastOp.frees = 0
  /\ hist[lastOp.u].dyn /\ hist[lastOp.u].data_frees = 1

\* C19: once the caller's GPU_uniformbuffer_update has uploaded d, the GL
\* buffer holds d through every later bind and unbind.
C19_UpdateSurvivesBind ==
  \A u \in UboIds :
    (ubo[u].alive = "live" /\ hist[u].user_upload) =>
      /\ ubo[u].bindcode # 0
      /\ gl[ubo[u].bindcode].contents = UserData(ubo[u].size)

\* C20: a slot recorded by bind implies an allocated resource, and a
\* dynamic buffer's block is released only after its upload into one.
C20_BoundImpliesAllocated ==
  \A u \in UboIds :
    ubo[u].alive = "live" =>
      /\ hist[u].bound => ubo[u].bindcode # 0
      /\ (hist[u].dyn /\ ubo[u].data = NoData) => hist[u].pend_uploads >= 1

\* C18: where the detach call is compiled in, GPU_uniformbuffer_unbind(u)
\* changes no slot but one that holds u's own GL buffer, whatever was bound
\* and unbound before, by u or by another buffer.
C18_UnbindOwnSlotOnly ==
  [][(build # "release" /\ lastOp'.op = "unbind") =>
       \A n \in Slots :
         slots'[n] # slots[n] =>
           (ubo[lastOp'.u].bindcode # 0 /\ slots[n] = ubo[lastOp'.u].bindcode)]_vars

====
